---- MODULE Spec2Model ----
(***************************************************************************)
(* Model of pylint_web2py2/__init__.py: the web2py transform hook, the     *)
(* Web2PyTransformer (path setup, model-name listing, fake-scope merge,    *)
(* unused-import retraction) and the MessageSniffer.                       *)
(*                                                                         *)
(* File names and model names are tuples of one-character strings, so that *)
(* sorting and the '.py' regular expressions are computed, not assumed.    *)
(* Paths are tuples of path segments ("/" + segments joined by "/").       *)
(* Symbol names are strings; a symbol table maps a name to its declaration *)
(* site.                                                                   *)
(***************************************************************************)
EXTENDS Integers, Sequences, FiniteSets, TLC

VARIABLES
    top_level,               \* Web2PyTransformer.top_level
    is_pythonpath_modified,  \* Web2PyTransformer.is_pythonpath_modified
    app_model_names,         \* Web2PyTransformer.app_model_names
    sys_path,                \* the entries appended to sys.path
    models_dir,              \* the file system: app name -> listing of its models directory
    stack,                   \* the transform_module calls in progress (innermost last)
    ret                      \* the outcome of the last completed web2py_transform call

vars == <<top_level, is_pythonpath_modified, app_model_names, sys_path, models_dir, stack, ret>>

\* ------------------------------------------------------------------ bounds
\* How many transform_module calls may be in progress at once.
MaxDepth == 2
\* How many times the models-directory listing may raise in one run.
MaxListFail == 1

\* ------------------------------------------------------------- characters
\* ord() of the characters used in file names.
Code == [c \in {"-", ".", "a", "b", "d", "m", "p", "t", "x", "y", "z"} |->
          CASE c = "-" -> 45 [] c = "." -> 46 [] c = "a" -> 97 [] c = "b" -> 98
            [] c = "d" -> 100 [] c = "m" -> 109 [] c = "p" -> 112 [] c = "t" -> 116
            [] c = "x" -> 120 [] c = "y" -> 121 [] c = "z" -> 122]

DotPy == <<".", "p", "y">>

\* Python's str comparison: s < t.
StrLess(s, t) ==
    \E k \in 1..(Len(s) + 1) :
        /\ k <= Len(t)
        /\ \A i \in 1..(k - 1) : s[i] = t[i]
        /\ \/ k = Len(s) + 1
           \/ k <= Len(s) /\ Code[s[k]] < Code[t[k]]

\* sorted(S) of a set of distinct strings.
RECURSIVE sorted(_)
sorted(S) ==
    IF S = {} THEN <<>>
    ELSE LET least == CHOOSE x \in S : \A y \in S \ {x} : StrLess(x, y)
         IN <<least>> \o sorted(S \ {least})

\* re.match(r'.+?\.py$', f): at least one character, then '.py' at the end.
MatchesPy(f) == Len(f) >= 4 /\ SubSeq(f, Len(f) - 2, Len(f)) = DotPy

\* re.match(r'^(.+?)\.py$', f).group(1)
BaseName(f) == SubSeq(f, 1, Len(f) - 3)

\* _fill_app_model_names: filter, sort the FILE names, then strip the extension.
FillAppModelNames(listing) ==
    LET model_files == sorted({f \in listing : MatchesPy(f)})
    IN [i \in 1..Len(model_files) |-> BaseName(model_files[i])]

\* _gen_models_import_code: the model names of the generated
\* 'from <name> import *' lines, in order; current_model = <<>> is None.
RECURSIVE GenModelsImportCode(_, _, _)
GenModelsImportCode(names, current_model, i) ==
    IF i > Len(names) THEN <<>>
    ELSE IF current_model # <<>> /\ names[i] = current_model THEN <<>>
    ELSE <<names[i]>> \o GenModelsImportCode(names, current_model, i + 1)


\* ------------------------------------------------------------------ paths
\* re.match(web2py_pattern, module.file) on "/" + segments joined by "/":
\* a non-empty prefix, the segment 'applications', an application name, a
\* sub-folder and a further "/". The lazy groups take the first such place.
\* 0 stands for no match (and for module.file being empty or None).
Web2pyIndex(file) ==
    LET places == {i \in 2..Len(file) : file[i] = "applications" /\ Len(file) >= i + 3}
    IN IF places = {} THEN 0 ELSE CHOOSE i \in places : \A j \in places : i <= j

Web2pyMatches(file) == Web2pyIndex(file) # 0
Web2pyPath(file) == SubSeq(file, 1, Web2pyIndex(file) - 1)
AppName(file) == file[Web2pyIndex(file) + 1]
Subfolder(file) == file[Web2pyIndex(file) + 2]

\* The dispatch taking 'modules' for a models folder too.
IsModelsFolderLoose(subfolder) == subfolder \in {"models", "modules"}

\* The dispatch of transform_module on the sub-folder name.
IsModelsFolder(subfolder) == subfolder = "models"
IsControllersFolder(subfolder) == subfolder = "controllers"

\* The five directories _add_paths appends, in order.
AddedPaths(web2py_path, app_name) ==
    << web2py_path \o <<"gluon">>,
       web2py_path \o <<"site-packages">>,
       web2py_path \o <<"applications", app_name, "modules">>,
       web2py_path \o <<"applications", app_name, "models">>,
       web2py_path >>

\* ----------------------------------------------------------- symbol tables
Site(owner, kind, text) == [owner |-> owner, kind |-> kind, text |-> text]

\* The names bound by the fixed fake code, one of each kind of statement:
\* 'request = Request()', 'from gluon.dal import DAL, Field',
\* 'from gluon.html import *' (A is one of the names it brings).
FakeCodeNames == {"request", "response", "DAL", "A"}
FakeCodeSite(n) ==
    CASE n \in {"request", "response"} -> Site("fake", "assign", "")
      [] n = "DAL" -> Site("fake", "from", "gluon.dal")
      [] OTHER -> Site("fake", "wildcard", "gluon.html")

\* What 'from <model> import *' brings into the fake tree: model db defines db.
ModelGlobals(model_name) == IF model_name = <<"d", "b">> THEN {"db"} ELSE {}

\* A model name the parser accepts in 'from <name> import *': any number of
\* leading dots (a relative import), then nothing or identifiers joined by
\* single dots. The letters of Code spell no keyword, so a run of them is an
\* identifier; '-' is in no name, and a dot may not end the name or follow a dot.
IsModuleName(model_name) ==
    LET starts == {i \in 1..(Len(model_name) + 1) :
                      \A j \in 1..(i - 1) : model_name[j] = "."}
        first == CHOOSE i \in starts : \A j \in starts : j <= i
        rest == SubSeq(model_name, first, Len(model_name))
    IN /\ \A i \in 1..Len(model_name) : model_name[i] # "-"
       /\ \/ rest = <<>>
          \/ /\ rest[Len(rest)] # "."
             /\ \A i \in 1..(Len(rest) - 1) : ~(rest[i] = "." /\ rest[i + 1] = ".")

\* AstroidBuilder.string_build(fake_code) raises on a syntax error.
StringBuildRaises(imports) == \E i \in 1..Len(imports) : ~IsModuleName(imports[i])

\* fake.globals of the built tree.
FakeGlobals(imports) ==
    LET imported == UNION {ModelGlobals(imports[i]) : i \in 1..Len(imports)}
    IN [n \in FakeCodeNames \cup imported |->
          IF n \in FakeCodeNames THEN FakeCodeSite(n) ELSE Site("fake", "wildcard", "model")]

\* module_node.locals.update(fake.globals)
LocalsUpdate(locals, globals) ==
    [n \in DOMAIN locals \cup DOMAIN globals |->
        IF n \in DOMAIN globals THEN globals[n] ELSE locals[n]]

\* del locals[name]
Del(locals, name) == [n \in DOMAIN locals \ {name} |-> locals[n]]

\* The loop without the test on fake_node.globals.
RECURSIVE RemoveUnusedAny(_, _, _)
RemoveUnusedAny(locals, globals, unused) ==
    IF unused = {} THEN locals
    ELSE LET name == CHOOSE n \in unused : TRUE
             next == IF name \in DOMAIN locals THEN Del(locals, name) ELSE locals
         IN RemoveUnusedAny(next, globals, unused \ {name})

\* The loop of _remove_unused_imports over sniffer.unused.
RECURSIVE RemoveUnused(_, _, _)
RemoveUnused(locals, globals, unused) ==
    IF unused = {} THEN locals
    ELSE LET name == CHOOSE n \in unused : TRUE
             next == IF name \in DOMAIN globals /\ name \in DOMAIN locals
                     THEN Del(locals, name) ELSE locals
         IN RemoveUnused(next, globals, unused \ {name})

\* The names a real file may declare itself, and how:
\* 'import os', 'import numpy as np', 'from mydal import DAL',
\* 'from foolib import *' (foo is a name it brings).
OwnNames == {"os", "np", "DAL", "foo"}
OwnSite(n) ==
    CASE n = "os" -> Site("real", "import", "os")
      [] n = "np" -> Site("real", "import_as", "numpy")
      [] n = "DAL" -> Site("real", "from", "mydal")
      [] OTHER -> Site("real", "wildcard", "foolib")

\* ------------------------------------------------------------- the checker
\* VariablesChecker reports a module-level name that no statement of the file
\* uses when it is bound by an import: (msg_descr, args) as the checker
\* formats them. A name bound by an assignment is never reported.
IsReported(locals, refs, n) ==
    \/ n \in DOMAIN locals /\ n \notin refs /\ locals[n].kind # "assign"
    \/ n \notin DOMAIN locals /\ n \in refs

MsgDescr(locals, n) ==
    IF n \notin DOMAIN locals THEN "undefined-variable"
    ELSE IF locals[n].kind = "wildcard" THEN "unused-wildcard-import"
    ELSE "unused-import"

MsgArgs(locals, n) ==
    IF n \notin DOMAIN locals THEN <<n>>
    ELSE CASE locals[n].kind = "import" -> <<"import", n>>
           [] locals[n].kind = "import_as" -> <<locals[n].text, "imported", "as", n>>
           [] locals[n].kind = "from" -> <<n, "imported", "from", locals[n].text>>
           [] OTHER -> <<n>>

\* ------------------------------------------------------------- the sniffer
\* re.match(r'^(.+?)\ imported\ from', args)
SymMatch(args) == Len(args) >= 3 /\ args[2] = "imported" /\ args[3] = "from"
\* re.match(r'^import\ (.+?)$', args)
ModuleMatch(args) == Len(args) = 2 /\ args[1] = "import"

\* The assertion of add_message fails.
AddMessageRaises(msg_descr, args) ==
    msg_descr = "unused-import" /\ ~SymMatch(args) /\ ~ModuleMatch(args)

\* sniffer.unused after add_message(msg_descr, args=args) returned.
AddMessage(unused, globals, msg_descr, args) ==
    IF msg_descr = "unused-wildcard-import" THEN unused \cup {args[1]}
    ELSE IF msg_descr = "unused-import" THEN
        LET sym_name == IF SymMatch(args) THEN args[1] ELSE args[2]
        IN IF sym_name \in DOMAIN globals THEN unused \cup {sym_name} ELSE unused
    ELSE unused


\* ------------------------------------------------------------------ inputs
Apps == {"app1", "app2"}

File(name) == name \o DotPy
\* Directory listings: one whose file names sort like their base names, and
\* one with 'a-b.py' and 'a.py' ('-' sorts before '.') and a bare '.py';
\* one with 'a..py', whose base name 'a.' ends in a dot.
ListingPlain == {File(<<"a">>), File(<<"d", "b">>), File(<<"m">>), <<"a", ".", "t", "x", "t">>}
ListingDash == {File(<<"a">>), File(<<"a", "-", "b">>), DotPy}
ListingDot == {File(<<"a">>), File(<<"a", ".">>)}
Dir(files) == [exists |-> TRUE, files |-> files]
NoDir == [exists |-> FALSE, files |-> {}]
\* The file systems a run may start from.
FileSystems ==
    { [a \in Apps |-> IF a = "app1" THEN Dir(ListingPlain) ELSE NoDir],
      [a \in Apps |-> IF a = "app1" THEN Dir(ListingDash) ELSE Dir(ListingPlain)],
      [a \in Apps |-> IF a = "app1" THEN NoDir ELSE Dir(ListingDash)],
      [a \in Apps |-> IF a = "app1" THEN Dir(ListingDot) ELSE NoDir] }

\* module.file of the modules handed to the hook (<<>>: no file).
Files ==
    { <<>>,
      <<"home", "x.py">>,
      <<"applications", "app1", "models", "x.py">>,
      <<"w", "applications", "app1", "models">>,
      <<"w", "applications", "app1", "models", "x.py">>,
      <<"w", "applications", "app2", "models", "x.py">>,
      <<"w", "applications", "app1", "controllers", "x.py">>,
      <<"w", "applications", "app2", "modules", "x.py">> }

\* The files whose modules are given every name and content below.
TransformedFiles ==
    { <<"w", "applications", "app1", "models", "x.py">>,
      <<"w", "applications", "app1", "controllers", "x.py">> }

\* module.name of the modules handed to the hook.
ModuleNames == {<<"a">>, <<"d", "b">>, <<"b">>}
\* The names a file declares itself, and the names its statements use.
Owns == {{}, {"os"}, {"np"}, {"DAL"}, {"foo"}}
Refs == {{}, {"request"}, {"DAL"}, {"request", "zz"}}

Module(file, name, own, refs) ==
    [file |-> file, name |-> name, locals |-> [n \in own |-> OwnSite(n)], refs |-> refs]

Modules ==
    { Module(f, n, own, refs) : f \in TransformedFiles, n \in ModuleNames, own \in Owns, refs \in Refs }
    \cup { Module(f, <<"a">>, {"os"}, {"request"}) : f \in Files }

NoModule == Module(<<>>, <<>>, {}, {})
NoLocals == NoModule.locals

\* ------------------------------------------------------------------- state
\* The outcome of a call: same tells whether the value returned is the module
\* that was passed, with the symbol table it had. A finished transformation
\* also keeps what it worked on.
Result(kind, same, depth) ==
    [kind |-> kind, same |-> same, depth |-> depth, arg |-> NoModule, node |-> NoModule,
     merged |-> NoLocals, globals |-> NoLocals, unused |-> {}, reentered |-> FALSE]

Init ==
    /\ top_level = TRUE
    /\ is_pythonpath_modified = FALSE
    /\ app_model_names = <<>>
    /\ sys_path = <<>>
    /\ models_dir \in FileSystems
    /\ stack = <<>>
    /\ ret = Result("init", TRUE, 0)

Top == stack[Len(stack)]
SetTop(frame) == [stack EXCEPT ![Len(stack)] = frame]
\* A call made while another is in progress marks the one in progress.
Reenter == IF stack = <<>> THEN stack ELSE SetTop([Top EXCEPT !.reentered = TRUE])

\* The guard left out: no call is ever skipped.
SkipsNever(flag) == FALSE

\* "if not self.top_level: return module_node"
Skips(flag) == ~flag

\* _add_paths has work to do, and os.listdir of the models directory raises.
ListingRaises(file) == ~is_pythonpath_modified /\ ~models_dir[AppName(file)].exists

\* _add_paths, when it returns.
AddPaths(file) ==
    IF is_pythonpath_modified
    THEN UNCHANGED <<sys_path, app_model_names, is_pythonpath_modified>>
    ELSE /\ sys_path' = sys_path \o AddedPaths(Web2pyPath(file), AppName(file))
         /\ app_model_names' = FillAppModelNames(models_dir[AppName(file)].files)
         /\ is_pythonpath_modified' = TRUE

\* ----------------------------------------------------------------- actions
\* web2py_transform on a module without a file or outside the layout: None.
NoMatch(m) ==
    /\ ~Web2pyMatches(m.file)
    /\ ret' = Result("none", TRUE, Len(stack))
    /\ UNCHANGED <<top_level, is_pythonpath_modified, app_model_names, sys_path, models_dir, stack>>

\* transform_module while not top-level: the module is returned as it is.
Skip(m) ==
    /\ Web2pyMatches(m.file)
    /\ Skips(top_level)
    /\ ret' = LET module_node == m IN Result("skip", module_node = m, Len(stack))
    /\ stack' = Reenter
    /\ UNCHANGED <<top_level, is_pythonpath_modified, app_model_names, sys_path, models_dir>>

\* transform_module whose _add_paths raises from os.listdir: the five paths
\* are appended, the flag is not set, the exception leaves every call in progress.
ListRaise(m) ==
    /\ Web2pyMatches(m.file)
    /\ ~Skips(top_level)
    /\ ListingRaises(m.file)
    /\ Len(sys_path) < 5 * MaxListFail
    /\ sys_path' = sys_path \o AddedPaths(Web2pyPath(m.file), AppName(m.file))
    /\ stack' = <<>>
    /\ ret' = Result("raise", FALSE, Len(stack))
    /\ UNCHANGED <<top_level, is_pythonpath_modified, app_model_names, models_dir>>

\* transform_module on a file of another sub-folder.
Plain(m) ==
    /\ Web2pyMatches(m.file)
    /\ ~Skips(top_level)
    /\ ~ListingRaises(m.file)
    /\ ~IsModelsFolder(Subfolder(m.file))
    /\ ~IsControllersFolder(Subfolder(m.file))
    /\ AddPaths(m.file)
    /\ ret' = LET transformed_module == m IN Result("plain", transformed_module = m, Len(stack))
    /\ stack' = Reenter
    /\ UNCHANGED <<top_level, models_dir>>

\* transform_module on a model or a controller, up to the generated fake code.
Start(m) ==
    /\ Web2pyMatches(m.file)
    /\ ~Skips(top_level)
    /\ ~ListingRaises(m.file)
    /\ IsModelsFolder(Subfolder(m.file)) \/ IsControllersFolder(Subfolder(m.file))
    /\ Len(stack) < MaxDepth
    /\ AddPaths(m.file)
    /\ top_level' = FALSE
    /\ stack' = Append(Reenter,
           [arg |-> m, locals |-> m.locals,
            role |-> IF IsModelsFolder(Subfolder(m.file)) THEN "models" ELSE "controllers",
            imports |-> GenModelsImportCode(app_model_names',
                            IF IsModelsFolder(Subfolder(m.file)) THEN m.name ELSE <<>>, 1),
            globals |-> NoLocals, merged |-> NoLocals, unused |-> {}, reported |-> {},
            pc |-> "build", depth |-> Len(stack), reentered |-> FALSE])
    /\ ret' = Result("pending", FALSE, Len(stack))
    /\ UNCHANGED models_dir

\* string_build raises: the exception leaves transform_module, top_level stays.
BuildRaise ==
    /\ stack # <<>> /\ Top.pc = "build"
    /\ StringBuildRaises(Top.imports)
    /\ stack' = <<>>
    /\ ret' = Result("raise", FALSE, 0)
    /\ UNCHANGED <<top_level, is_pythonpath_modified, app_model_names, sys_path, models_dir>>

\* string_build, locals.update(fake.globals), and the sniffer set up.
BuildMerge ==
    /\ stack # <<>> /\ Top.pc = "build"
    /\ ~StringBuildRaises(Top.imports)
    /\ LET globals == FakeGlobals(Top.imports)
           merged == LocalsUpdate(Top.locals, globals)
       IN stack' = SetTop([Top EXCEPT !.globals = globals, !.locals = merged,
                               !.merged = merged, !.unused = {}, !.pc = "check"])
    /\ UNCHANGED <<top_level, is_pythonpath_modified, app_model_names, sys_path, models_dir, ret>>

\* The checker's messages still to come for the call in progress.
Pending(frame) ==
    {n \in (DOMAIN frame.locals \cup frame.arg.refs) \ frame.reported :
        IsReported(frame.locals, frame.arg.refs, n)}

\* One message of the checker reaches add_message, which returns.
Message(n) ==
    /\ stack # <<>> /\ Top.pc = "check"
    /\ n \in Pending(Top)
    /\ ~AddMessageRaises(MsgDescr(Top.locals, n), MsgArgs(Top.locals, n))
    /\ stack' = SetTop([Top EXCEPT
           !.unused = AddMessage(Top.unused, Top.globals, MsgDescr(Top.locals, n), MsgArgs(Top.locals, n)),
           !.reported = Top.reported \cup {n}])
    /\ UNCHANGED <<top_level, is_pythonpath_modified, app_model_names, sys_path, models_dir, ret>>

\* One message of the checker fails the assertion of add_message.
MessageRaise(n) ==
    /\ stack # <<>> /\ Top.pc = "check"
    /\ n \in Pending(Top)
    /\ AddMessageRaises(MsgDescr(Top.locals, n), MsgArgs(Top.locals, n))
    /\ stack' = <<>>
    /\ ret' = Result("raise", FALSE, 0)
    /\ UNCHANGED <<top_level, is_pythonpath_modified, app_model_names, sys_path, models_dir>>

\* The check is over: the retraction loop, top_level = True, return.
Finish ==
    /\ stack # <<>> /\ Top.pc = "check"
    /\ Pending(Top) = {}
    /\ LET locals == RemoveUnused(Top.locals, Top.globals, Top.unused)
       IN ret' = [kind |-> "done", same |-> (locals = Top.arg.locals),
                  arg |-> Top.arg,
                  node |-> [Top.arg EXCEPT !.locals = locals], depth |-> Top.depth,
                  merged |-> Top.merged, globals |-> Top.globals, unused |-> Top.unused,
                  reentered |-> Top.reentered]
    /\ top_level' = TRUE
    /\ stack' = SubSeq(stack, 1, Len(stack) - 1)
    /\ UNCHANGED <<is_pythonpath_modified, app_model_names, sys_path, models_dir>>

\* Every name a message can be about.
SymbolNames == OwnNames \cup FakeCodeNames \cup {"db", "zz"}

Next ==
    \/ \E m \in Modules : NoMatch(m)
    \/ \E m \in Modules : Skip(m)
    \/ \E m \in Modules : ListRaise(m)
    \/ \E m \in Modules : Plain(m)
    \/ \E m \in Modules : Start(m)
    \/ BuildRaise
    \/ BuildMerge
    \/ \E n \in SymbolNames : Message(n)
    \/ \E n \in SymbolNames : MessageRaise(n)
    \/ Finish

Spec == Init /\ [][Next]_vars


\* ------------------------------------------------------------------ claims
Frames == {stack[i] : i \in 1..Len(stack)}
SameLocals(before, after) ==
    /\ Len(after) = Len(before)
    /\ \A i \in 1..Len(before) : after[i].locals = before[i].locals /\ after[i].arg = before[i].arg

\* C1: while a models/controllers transformation is in progress, a call of
\* transform_module starts no transformation and no path setup: it returns the
\* module it was given, unchanged, and leaves the flag and the symbol table of
\* the file in progress alone; and the file in progress still ends merged and
\* retracted: of the injected names, exactly those bound by an import that the
\* file does not use are gone.
C1_InProgressStep ==
    stack # <<>> =>
        /\ Len(stack') <= Len(stack)
        /\ UNCHANGED <<is_pythonpath_modified, app_model_names, sys_path>>
        /\ ret' # ret =>
             \/ ret'.kind \in {"done", "raise"}
             \/ /\ ret'.kind \in {"skip", "none"}
                /\ ret'.same
                /\ ret'.depth = Len(stack)
                /\ top_level' = top_level
                /\ SameLocals(stack, stack')
C1_Transformed ==
    ret.kind = "done" =>
        /\ ret.depth = 0
        /\ \A n \in DOMAIN ret.globals :
             n \in DOMAIN ret.node.locals <=> (n \in ret.arg.refs \/ ret.globals[n].kind = "assign")
C1_RecursionGuard == [][C1_InProgressStep]_vars /\ []C1_Transformed
\* A transformation that was re-entered and still changed its file's symbol table.
C1_Witness == ret.kind = "done" /\ ret.reentered /\ ~ret.same

\* C2: whenever no transform is in progress, top_level is True, also after
\* calls that raised.
C2_GuardRestored == stack = <<>> => top_level

\* C3: the generated code imports, for a models file, exactly the siblings
\* that precede the file's name in SiblingOrder (by position, or by the order
\* itself when the name is no sibling), in order; for a controllers file,
\* every sibling, in order.
PrecedingByPosition(order, self) ==
    LET at == {j \in 1..Len(order) : order[j] = self}
    IN IF at = {} THEN <<>> ELSE SubSeq(order, 1, (CHOOSE j \in at : \A k \in at : j <= k) - 1)
PrecedingByOrder(order, self) == SelectSeq(order, LAMBDA x : StrLess(x, self))
C3_ImportOrder ==
    \A frame \in Frames :
        IF frame.role = "models"
        THEN \/ frame.imports = PrecedingByPosition(app_model_names, frame.arg.name)
             \/ frame.imports = PrecedingByOrder(app_model_names, frame.arg.name)
        ELSE frame.imports = app_model_names

\* C4: after a transformation every injected name the file uses is in its
\* symbol table, and every injected name it neither uses nor declares is not.
C4_Retraction ==
    ret.kind = "done" =>
        \A n \in DOMAIN ret.globals :
            /\ n \in ret.arg.refs => n \in DOMAIN ret.node.locals
            /\ (n \notin ret.arg.refs /\ n \notin DOMAIN ret.arg.locals) => n \notin DOMAIN ret.node.locals

\* C5: retraction deletes a name of the merged symbol table if and only if it
\* is in the fake tree's globals and in the sniffer's unused set; every other
\* entry stays as it was; retracting again with the same unused set changes
\* nothing (and meets only absent names).
C5_RetractionInvariant ==
    ret.kind = "done" =>
        /\ DOMAIN ret.node.locals \subseteq DOMAIN ret.merged
        /\ \A n \in DOMAIN ret.merged :
             n \notin DOMAIN ret.node.locals <=> (n \in DOMAIN ret.globals /\ n \in ret.unused)
        /\ \A n \in DOMAIN ret.node.locals : ret.node.locals[n] = ret.merged[n]
        /\ RemoveUnused(ret.node.locals, ret.globals, ret.unused) = ret.node.locals
\* A retraction that deleted a name and met an unused name that is no candidate.
C5_Witness ==
    /\ ret.kind = "done"
    /\ DOMAIN ret.node.locals # DOMAIN ret.merged
    /\ \E n \in ret.unused : n \notin DOMAIN ret.globals /\ n \in DOMAIN ret.node.locals

\* C6: the merge overwrites no name the file declares itself: every own
\* declaration keeps its site through the merge and the retraction.
C6_MergePrecedence ==
    /\ \A frame \in Frames : \A n \in DOMAIN frame.arg.locals :
           n \in DOMAIN frame.locals /\ frame.locals[n] = frame.arg.locals[n]
    /\ ret.kind = "done" => \A n \in DOMAIN ret.arg.locals :
           n \in DOMAIN ret.node.locals /\ ret.node.locals[n] = ret.arg.locals[n]

\* C7 as stated: a call on a file outside the application layout returns
\* without error and changes nothing; a call on a file of a sub-folder other
\* than models and controllers returns the module unchanged and leaves
\* top_level and the calls in progress as they were.
OutsideModules == {m \in Modules : ~Web2pyMatches(m.file)}
PlainModules ==
    {m \in Modules : Web2pyMatches(m.file) /\ Subfolder(m.file) \notin {"models", "controllers"}}
Call(m) == NoMatch(m) \/ Skip(m) \/ ListRaise(m) \/ Plain(m) \/ Start(m)
OutsideStep ==
    \A m \in OutsideModules : Call(m) =>
        /\ ret'.kind = "none" /\ ret'.same
        /\ UNCHANGED <<top_level, is_pythonpath_modified, app_model_names, sys_path, stack>>
C7_StepAsStated ==
    /\ OutsideStep
    /\ \A m \in PlainModules : Call(m) =>
         /\ ret'.kind \in {"plain", "skip"} /\ ret'.same
         /\ top_level' = top_level
         /\ SameLocals(stack, stack')
C7_PassThroughAsStated == [][C7_StepAsStated]_vars

\* C7, amended: as stated, except that a call on a file of another sub-folder
\* raises instead of returning when it is the call that sets up the paths and
\* the application's models directory cannot be listed; top_level and every
\* symbol table are unchanged then too.
C7_Step ==
    /\ OutsideStep
    /\ \A m \in PlainModules : Call(m) =>
         /\ top_level' = top_level
         /\ SameLocals(stack, stack')
         /\ IF ret'.kind = "raise"
            THEN top_level /\ ~is_pythonpath_modified /\ ~models_dir[AppName(m.file)].exists
            ELSE ret'.kind \in {"plain", "skip"} /\ ret'.same
C7_PassThrough == [][C7_Step]_vars
\* A Plain-role call that ran the path setup and returned its module.
C7_Witness == ret.kind = "plain" /\ ret.same /\ is_pythonpath_modified /\ top_level

\* C8: the five directories are appended exactly once, the listing is made at
\* most once, and app_model_names is the one listing's result from then on.
C8_OncePerProcess ==
    /\ Len(sys_path) <= 5
    /\ is_pythonpath_modified =>
         /\ Len(sys_path) = 5
         /\ app_model_names = FillAppModelNames(models_dir[sys_path[4][3]].files)

\* C9: every element of the sniffer's unused set is a candidate name.
C9_CandidateFilter == \A frame \in Frames : frame.unused \subseteq DOMAIN frame.globals

\* C10: app_model_names is the base names of the '.py' entries in
\* lexicographic order of the base names.
BaseNameOrder(listing) == sorted({BaseName(f) : f \in {g \in listing : MatchesPy(g)}})
C10_SiblingOrder ==
    is_pythonpath_modified =>
        app_model_names = BaseNameOrder(models_dir[sys_path[Len(sys_path) - 1][3]].files)

====
